---------------------------- MODULE Spec2Model ----------------------------
(***************************************************************************)
(* Model of src/App.py: the dataset merger load_data (lines 12-40) and the *)
(* rolling regression calculate_rolling_betas (lines 44-68), run in the    *)
(* order of the script (line 85, then line 157).                           *)
(*                                                                         *)
(* A spreadsheet cell is a record [k, v]:                                  *)
(*   k = "num"  a number v                                                 *)
(*   k = "str"  a text cell whose text parses to the number v              *)
(*   k = "bad"  a text cell that does not parse ("n/a")                    *)
(*   k = "nan"  a blank cell (pandas NaN)                                  *)
(* A Date cell is [k, v] with k = "ts" (an Excel date), "str" (text that   *)
(* parses to day v) or "bad" (text that is no date).                       *)
(* A DataFrame is [rows, obj]: its rows in order, and the set of its       *)
(* columns whose dtype is object (a column read with any text cell in it). *)
(* Floating point values are modelled by exact integers; a standard        *)
(* deviation, a correlation and a quotient are kept as the exact integers  *)
(* that determine them.                                                    *)
(***************************************************************************)
EXTENDS Integers, Sequences, FiniteSets

\* ------------------------------------------------------------------ bounds
\* The source's windows are 180 (line 44), 30 (lines 34-35) and 90 (lines
\* 36-37); the model runs the same code on scaled-down windows.
Window == 2
VolWindow == 2
CorrWindow == 3
\* Rows per input of the value inputs, rows per input and distinct days of
\* the date inputs.
MaxN == 5
MaxRows == 2
MaxDay == 3

VARIABLES
    gold_silver,      \* the price sheet as read (line 13)
    macro,            \* the macro sheet as read (line 14)
    pc,               \* "start", "loaded", "loop", "done", "error"
    err,              \* the exception load_data raised, or "none"
    df,               \* load_data's result (line 85)
    bdf,              \* calculate_rolling_betas' df after dropna (line 45)
    i,                \* the loop index of line 48 (0-based, as in the source)
    rolling_results,  \* line 46
    failed,           \* history: the indices whose fit raised (line 65)
    skippedNull       \* history: the indices skipped at line 54

vars == <<gold_silver, macro, pc, err, df, bdf, i, rolling_results,
          failed, skippedNull>>

\* ------------------------------------------------------------------- cells
Num(n) == [k |-> "num", v |-> n]
Str(n) == [k |-> "str", v |-> n]
Bad == [k |-> "bad", v |-> 0]
NaN == [k |-> "nan", v |-> 0]

IsNull(c) == c.k = "nan"
IsText(c) == c.k \in {"str", "bad"}

PriceCols == {"Gold_Price", "Silver_Price", "Gold_Returns", "Silver_Returns"}
MacroCols == {"DXY", "US10Y_Yield", "India_CPI", "GoogleTrends_Gold"}

Range(s) == {s[j] : j \in 1..Len(s)}

\* read_excel's dtype inference: a column holding any text cell is object.
ObjectCols(rows, cols) == {c \in cols : \E j \in 1..Len(rows) : IsText(rows[j][c])}

ReadExcel(rows, cols) == [rows |-> rows, obj |-> ObjectCols(rows, cols)]

\* --------------------------------------------------------------- load_data
\* pd.to_datetime on one cell: an Excel date and a date text give the day.
ParseDate(c) == c.v

DateParses(c) == c.k \in {"ts", "str"}

ToDatetimeRaises(frame) == \E j \in 1..Len(frame.rows) : ~DateParses(frame.rows[j].Date)

ToDatetime(frame) ==
    [frame EXCEPT !.rows = [j \in 1..Len(frame.rows) |->
        [frame.rows[j] EXCEPT !.Date = ParseDate(frame.rows[j].Date)]]]

JoinRow(l, r) ==
    [Date |-> l.Date,
     Gold_Price |-> l.Gold_Price, Silver_Price |-> l.Silver_Price,
     Gold_Returns |-> l.Gold_Returns, Silver_Returns |-> l.Silver_Returns,
     DXY |-> r.DXY, US10Y_Yield |-> r.US10Y_Yield,
     India_CPI |-> r.India_CPI, GoogleTrends_Gold |-> r.GoogleTrends_Gold]

LeftJoinRows(l, right) ==
    LET Same(r) == r.Date = l.Date
        m == SelectSeq(right, Same)
        blank == [Date |-> l.Date, DXY |-> NaN, US10Y_Yield |-> NaN,
                  India_CPI |-> NaN, GoogleTrends_Gold |-> NaN]
    IN  IF Len(m) = 0 THEN <<JoinRow(l, blank)>>
        ELSE [j \in 1..Len(m) |-> JoinRow(l, m[j])]

\* how='inner': the rows of right with l's date, in right's order.
MatchRows(l, right) ==
    LET Same(r) == r.Date = l.Date
        m == SelectSeq(right, Same)
    IN  [j \in 1..Len(m) |-> JoinRow(l, m[j])]

RECURSIVE MergeRows(_, _)
MergeRows(left, right) ==
    IF Len(left) = 0 THEN <<>>
    ELSE MatchRows(Head(left), right) \o MergeRows(Tail(left), right)

\* pd.merge(gold_silver, macro, on='Date', how='inner'): left key order kept.
Merge(left, right) ==
    [rows |-> MergeRows(left.rows, right.rows), obj |-> left.obj \cup right.obj]

RemoveAt(s, j) == SubSeq(s, 1, j - 1) \o SubSeq(s, j + 1, Len(s))

FirstAt(s, r) == CHOOSE j \in 1..Len(s) : s[j] = r /\ \A h \in 1..(j - 1) : s[h] # r

\* Every order of the rows of s.
RECURSIVE Arrangements(_)
Arrangements(s) ==
    IF Len(s) = 0 THEN {<<>>}
    ELSE UNION {{<<r>> \o t : t \in Arrangements(RemoveAt(s, FirstAt(s, r)))} :
                r \in Range(s)}

MinOf(S) == CHOOSE x \in S : \A y \in S : x <= y

RECURSIVE SortedBy(_, _)
SortedBy(rows, dates) ==
    IF dates = {} THEN {<<>>}
    ELSE LET d == MinOf(dates)
             Here(r) == r.Date = d
         IN  {a \o b : a \in Arrangements(SelectSeq(rows, Here)),
                       b \in SortedBy(rows, dates \ {d})}

NoSort(rows) == {rows}

\* df.sort_values('Date'): the default kind is quicksort, which is not
\* stable, so rows of one date may come out in any order.
SortValues(rows) == SortedBy(rows, {rows[j].Date : j \in 1..Len(rows)})

\* df.rename(columns={'Gold_Price': 'Gold_Close', 'Silver_Price': 'Silver_Close'})
RenameRow(r) ==
    [Date |-> r.Date,
     Gold_Close |-> r.Gold_Price, Silver_Close |-> r.Silver_Price,
     Gold_Returns |-> r.Gold_Returns, Silver_Returns |-> r.Silver_Returns,
     DXY |-> r.DXY, US10Y_Yield |-> r.US10Y_Yield,
     India_CPI |-> r.India_CPI, GoogleTrends_Gold |-> r.GoogleTrends_Gold]

RenameCol(c) ==
    IF c = "Gold_Price" THEN "Gold_Close"
    ELSE IF c = "Silver_Price" THEN "Silver_Close" ELSE c

Rename(frame) ==
    [rows |-> [j \in 1..Len(frame.rows) |-> RenameRow(frame.rows[j])],
     obj |-> {RenameCol(c) : c \in frame.obj}]

numeric_cols == <<"Gold_Returns", "Silver_Returns", "DXY", "US10Y_Yield">>

\* pd.to_numeric(cell, errors='coerce')
Coerce(c) == IF c.k \in {"num", "str"} THEN Num(c.v) ELSE NaN

ToNumericCol(frame, col) ==
    [rows |-> [j \in 1..Len(frame.rows) |->
                 [frame.rows[j] EXCEPT ![col] = Coerce(frame.rows[j][col])]],
     obj |-> frame.obj \ {col}]

RECURSIVE ToNumeric(_, _)
ToNumeric(frame, cols) ==
    IF Len(cols) = 0 THEN frame
    ELSE ToNumeric(ToNumericCol(frame, Head(cols)), Tail(cols))

RECURSIVE Sum(_)
Sum(s) == IF Len(s) = 0 THEN 0 ELSE Head(s) + Sum(Tail(s))

Column(rows, col) == [j \in 1..Len(rows) |-> rows[j][col]]

Values(cells) == [j \in 1..Len(cells) |-> cells[j].v]

Products(xs, ys) == [j \in 1..Len(xs) |-> xs[j] * ys[j]]

\* n * sum(x*y) - sum(x) * sum(y): n^2 times the covariance of xs and ys.
Cov(xs, ys) == Len(xs) * Sum(Products(xs, ys)) - Sum(xs) * Sum(ys)

MinPeriodsOne(w) == 1

\* rolling(w): min_periods defaults to the window.
MinPeriods(w) == w

\* The cells of the trailing window that ends at row j (1-based).
Trailing(cells, j, w) == SubSeq(cells, IF j > w THEN j - w + 1 ELSE 1, j)

Observed(cells) == LET Seen(c) == ~IsNull(c) IN SelectSeq(cells, Seen)

\* Series.rolling(w).std() * (252**0.5) at row j: the sample standard
\* deviation of the window, kept as var = n^2 times the variance.
RollingStd(cells, j, w) ==
    LET xs == Values(Observed(Trailing(cells, j, w)))
    IN  IF Len(xs) < MinPeriods(w) \/ Len(xs) < 2 THEN [k |-> "nan", var |-> 0]
        ELSE [k |-> "num", var |-> Cov(xs, xs)]

\* Series.rolling(w).corr(other) at row j: cov / sqrt(varx * vary) over the
\* rows of the window where both are present; 0/0 is NaN.
RollingCorr(xcells, ycells, j, w) ==
    LET xw == Trailing(xcells, j, w)
        yw == Trailing(ycells, j, w)
        both == {h \in 1..Len(xw) : ~IsNull(xw[h]) /\ ~IsNull(yw[h])}
        idx == SelectSeq([h \in 1..Len(xw) |-> h], LAMBDA h : h \in both)
        xs == [h \in 1..Len(idx) |-> xw[idx[h]].v]
        ys == [h \in 1..Len(idx) |-> yw[idx[h]].v]
        none == [k |-> "nan", cov |-> 0, varx |-> 0, vary |-> 0]
    IN  IF Len(xs) < MinPeriods(w) THEN none
        ELSE IF Cov(xs, xs) = 0 \/ Cov(ys, ys) = 0 THEN none
        ELSE [k |-> "num", cov |-> Cov(xs, ys), varx |-> Cov(xs, xs),
              vary |-> Cov(ys, ys)]

RatioSwapped(g, s) ==
    IF IsNull(g) \/ IsNull(s) \/ (g.v = 0 /\ s.v = 0) THEN [k |-> "nan", n |-> 0, d |-> 0]
    ELSE IF g.v = 0 THEN [k |-> "inf", n |-> s.v, d |-> 0]
    ELSE [k |-> "num", n |-> s.v, d |-> g.v]

\* One element of df['Gold_Close'] / df['Silver_Close'] in float arithmetic:
\* the quotient n/d; x/0 is inf and 0/0 is NaN.
Ratio(g, s) ==
    IF IsNull(g) \/ IsNull(s) \/ (g.v = 0 /\ s.v = 0) THEN [k |-> "nan", n |-> 0, d |-> 0]
    ELSE IF s.v = 0 THEN [k |-> "inf", n |-> g.v, d |-> 0]
    ELSE [k |-> "num", n |-> g.v, d |-> s.v]

\* Line 38 on object columns divides cell by cell; a text cell raises TypeError.
RatioRaises(frame) ==
    \E j \in 1..Len(frame.rows) :
        IsText(frame.rows[j].Gold_Close) \/ IsText(frame.rows[j].Silver_Close)

DerivedRow(rows, j) ==
    LET r == rows[j]
    IN  [Date |-> r.Date,
         Gold_Close |-> r.Gold_Close, Silver_Close |-> r.Silver_Close,
         Gold_Returns |-> r.Gold_Returns, Silver_Returns |-> r.Silver_Returns,
         DXY |-> r.DXY, US10Y_Yield |-> r.US10Y_Yield,
         India_CPI |-> r.India_CPI, GoogleTrends_Gold |-> r.GoogleTrends_Gold,
         Gold_Volatility |-> RollingStd(Column(rows, "Gold_Returns"), j, VolWindow),
         Silver_Volatility |-> RollingStd(Column(rows, "Silver_Returns"), j, VolWindow),
         Gold_to_DXY_Corr |->
             RollingCorr(Column(rows, "Gold_Returns"), Column(rows, "DXY"), j, CorrWindow),
         Gold_to_Yield_Corr |->
             RollingCorr(Column(rows, "Gold_Returns"), Column(rows, "US10Y_Yield"), j,
                         CorrWindow),
         Gold_Silver_Ratio |-> Ratio(r.Gold_Close, r.Silver_Close)]

Derived(frame) ==
    [rows |-> [j \in 1..Len(frame.rows) |-> DerivedRow(frame.rows, j)],
     obj |-> frame.obj]

EmptyFrame == [rows |-> <<>>, obj |-> {}]

\* load_data up to the derived columns, for one outcome of the sort.
Prepared(sorted, obj) ==
    ToNumeric(Rename([rows |-> sorted, obj |-> obj]), numeric_cols)

LoadData ==
    /\ pc = "start"
    /\ IF ToDatetimeRaises(gold_silver) \/ ToDatetimeRaises(macro)
       THEN /\ pc' = "error"
            /\ err' = "ParseError"
            /\ df' = EmptyFrame
       ELSE LET merged == Merge(ToDatetime(gold_silver), ToDatetime(macro))
            IN  \E sorted \in SortValues(merged.rows) :
                    LET frame == Prepared(sorted, merged.obj)
                    IN  IF RatioRaises(frame)
                        THEN /\ pc' = "error"
                             /\ err' = "TypeError"
                             /\ df' = EmptyFrame
                        ELSE /\ pc' = "loaded"
                             /\ err' = "none"
                             /\ df' = Derived(frame)
    /\ UNCHANGED <<gold_silver, macro, bdf, i, rolling_results, failed, skippedNull>>

\* ------------------------------------------------- calculate_rolling_betas
Required == {"Gold_Returns", "India_CPI", "DXY", "US10Y_Yield", "GoogleTrends_Gold"}

Exog == <<"India_CPI", "DXY", "US10Y_Yield", "GoogleTrends_Gold">>

SubsetWithoutDXY == Required \ {"DXY"}

\* The subset of df.dropna(subset=[...]) (line 45).
DropNaSubset == Required

HasNull(r, cols) == \E c \in cols : IsNull(r[c])

KeepAll(frame, cols) == frame

\* df.dropna(subset=cols): the rows with no null in cols; dtypes are kept.
DropNa(frame, cols) ==
    LET Full(r) == ~HasNull(r, cols)
    IN  [frame EXCEPT !.rows = SelectSeq(frame.rows, Full)]

LoopStartLate(w) == w + 1

\* range(window, len(df)) starts at window.
LoopStart(w) == w

\* The rows iloc[i-window:i] of line 49 and line 50.
WindowRows(rows, at, w) == SubSeq(rows, at - w + 1, at)

\* add_constant(X) skips the constant when a column of X already is one
\* (has_constant='skip'): a numeric column with one non-zero value.
IsConstant(win, c) ==
    /\ Len(win) > 0
    /\ \A j \in 1..Len(win) : win[j][c].k = "num" /\ win[j][c].v = win[1][c].v
    /\ win[1][c].v # 0

ExogNames(win) ==
    IF \E c \in Range(Exog) : IsConstant(win, c) THEN Range(Exog)
    ELSE Range(Exog) \cup {"const"}

\* X.isnull().values.any() or y.isnull().values.any() (line 53)
WindowHasNull(win) == \E j \in 1..Len(win) : HasNull(win[j], Required)

\* sm.OLS(y, X).fit() raises on object data (a column read with text in it).
\* On numeric data the solver may still raise (a non-finite value, no
\* convergence), which the integers of the model do not decide.
FitOutcomes(frame) ==
    IF frame.obj \cap Required # {} THEN {"raise"} ELSE {"ok", "raise"}

\* model.params: one coefficient per column of X, a function of the window.
Params(win) ==
    [c \in ExogNames(win) |->
        [k |-> "num", of |-> c,
         y |-> Values(Column(win, "Gold_Returns")),
         X |-> [e \in Range(Exog) |-> Values(Column(win, e))]]]

None == [k |-> "nan", of |-> "", y |-> <<>>, X |-> [e \in Range(Exog) |-> <<>>]]

\* model.params.get(key, None)
Get(params, key) == IF key \in DOMAIN params THEN params[key] ELSE None

DateBefore(rows, at) == rows[at].Date

\* df['Date'].iloc[i], i 0-based.
DateAt(rows, at) == rows[at + 1].Date

\* The dict appended at lines 58-64 for index at.
Point(frame, at, w) ==
    LET params == Params(WindowRows(frame.rows, at, w))
    IN  [Date |-> DateAt(frame.rows, at),
         Inflation_Beta |-> Get(params, "India_CPI"),
         DXY_Beta |-> Get(params, "DXY"),
         US10Y_Yield_Beta |-> Get(params, "US10Y_Yield"),
         Sentiment_Beta |-> Get(params, "GoogleTrends_Gold")]

BreakAfterRaise(at, n) == n

\* except: continue (lines 65-66): the loop goes on with the next index.
AfterRaise(at, n) == at + 1

\* Line 157 calls calculate_rolling_betas(df); lines 45-46.
CalculateRollingBetas ==
    /\ pc = "loaded"
    /\ pc' = "loop"
    /\ bdf' = DropNa(df, DropNaSubset)
    /\ rolling_results' = <<>>
    /\ i' = LoopStart(Window)
    /\ UNCHANGED <<gold_silver, macro, err, df, failed, skippedNull>>

\* One iteration of the loop of lines 48-66.
LoopStep ==
    /\ pc = "loop"
    /\ i < Len(bdf.rows)
    /\ IF WindowHasNull(WindowRows(bdf.rows, i, Window))
       THEN /\ skippedNull' = skippedNull \cup {i}
            /\ i' = i + 1
            /\ UNCHANGED <<rolling_results, failed>>
       ELSE \E outcome \in FitOutcomes(bdf) :
                IF outcome = "raise"
                THEN /\ failed' = failed \cup {i}
                     /\ i' = AfterRaise(i, Len(bdf.rows))
                     /\ UNCHANGED <<rolling_results, skippedNull>>
                ELSE /\ rolling_results' = Append(rolling_results, Point(bdf, i, Window))
                     /\ i' = i + 1
                     /\ UNCHANGED <<failed, skippedNull>>
    /\ UNCHANGED <<gold_silver, macro, pc, err, df, bdf>>

\* return pd.DataFrame(rolling_results) (line 68)
ReturnBetas ==
    /\ pc = "loop"
    /\ i >= Len(bdf.rows)
    /\ pc' = "done"
    /\ UNCHANGED <<gold_silver, macro, err, df, bdf, i, rolling_results, failed,
                   skippedNull>>

Next == LoadData \/ CalculateRollingBetas \/ LoopStep \/ ReturnBetas

\* ------------------------------------------------------------------ inputs
ColIndex(c) ==
    CASE c = "Gold_Price" -> 1 [] c = "Silver_Price" -> 2
      [] c = "Gold_Returns" -> 3 [] c = "Silver_Returns" -> 4
      [] c = "DXY" -> 5 [] c = "US10Y_Yield" -> 6
      [] c = "India_CPI" -> 7 [] c = "GoogleTrends_Gold" -> 8

Profiles == {"vary", "flat", "step"}

\* The number in column c of row j: it changes from row to row ("vary"), is
\* the same in every row ("flat"), or is flat over the first correlation
\* window and changes after it ("step").
Val(profile, c, j) ==
    CASE profile = "vary" -> j * j + ColIndex(c)
      [] profile = "flat" -> ColIndex(c)
      [] profile = "step" -> IF j <= CorrWindow THEN ColIndex(c) ELSE j * j + ColIndex(c)

NoDefect == [col |-> "none", row |-> 0, kind |-> "nan"]

\* One cell of one sheet that is blank, unparseable text, or a number (a
\* date) typed as text.
Defects(n) ==
    [col : PriceCols \cup MacroCols, row : 1..n, kind : {"nan", "bad", "str"}]
    \cup [col : {"PriceDate", "MacroDate"}, row : 1..n, kind : {"bad", "str"}]

Hit(dfc, c, j) == dfc.col = c /\ dfc.row = j

Cell(profile, c, j, dfc, nulls) ==
    IF Hit(dfc, c, j)
    THEN CASE dfc.kind = "nan" -> NaN
           [] dfc.kind = "bad" -> Bad
           [] dfc.kind = "str" -> Str(Val(profile, c, j))
    ELSE IF c = "DXY" /\ j \in nulls THEN NaN
    ELSE Num(Val(profile, c, j))

DateCell(c, day, j, dfc) ==
    IF Hit(dfc, c, j) THEN [k |-> dfc.kind, v |-> IF dfc.kind = "bad" THEN 0 ELSE day]
    ELSE [k |-> "ts", v |-> day]

PriceRow(profile, day, j, dfc) ==
    [Date |-> DateCell("PriceDate", day, j, dfc),
     Gold_Price |-> Cell(profile, "Gold_Price", j, dfc, {}),
     Silver_Price |-> Cell(profile, "Silver_Price", j, dfc, {}),
     Gold_Returns |-> Cell(profile, "Gold_Returns", j, dfc, {}),
     Silver_Returns |-> Cell(profile, "Silver_Returns", j, dfc, {})]

MacroRow(profile, day, j, dfc, nulls) ==
    [Date |-> DateCell("MacroDate", day, j, dfc),
     DXY |-> Cell(profile, "DXY", j, dfc, nulls),
     US10Y_Yield |-> Cell(profile, "US10Y_Yield", j, dfc, nulls),
     India_CPI |-> Cell(profile, "India_CPI", j, dfc, nulls),
     GoogleTrends_Gold |-> Cell(profile, "GoogleTrends_Gold", j, dfc, nulls)]

InitRest ==
    /\ pc = "start"
    /\ err = "none"
    /\ df = EmptyFrame
    /\ bdf = EmptyFrame
    /\ i = 0
    /\ rolling_results = <<>>
    /\ failed = {}
    /\ skippedNull = {}

\* Value inputs: two sheets of the same n consecutive days in date order,
\* with any set of rows whose DXY is blank, or with one damaged cell and at
\* most one row whose DXY is blank.
InitValues ==
    /\ \E n \in 1..MaxN, profile \in Profiles :
        \E nulls \in SUBSET (1..n), dfc \in Defects(n) \cup {NoDefect} :
            /\ dfc = NoDefect \/ \A a \in nulls, b \in nulls : a = b
            /\ gold_silver =
                 ReadExcel([j \in 1..n |-> PriceRow(profile, j, j, dfc)], PriceCols)
            /\ macro =
                 ReadExcel([j \in 1..n |-> MacroRow(profile, j, j, dfc, nulls)], MacroCols)
    /\ InitRest

DaySeqs == UNION {[1..n -> 1..MaxDay] : n \in 1..MaxRows}

\* Date inputs: each sheet lists any days in any order, repeats allowed;
\* the cells of a row are numbers that depend on its day.
InitDates ==
    /\ \E pdays \in DaySeqs, mdays \in DaySeqs :
            /\ gold_silver =
                 ReadExcel([j \in 1..Len(pdays) |->
                              PriceRow("vary", pdays[j], pdays[j], NoDefect)], PriceCols)
            /\ macro =
                 ReadExcel([j \in 1..Len(mdays) |->
                              MacroRow("vary", mdays[j], mdays[j], NoDefect, {})], MacroCols)
    /\ InitRest

Init == InitValues \/ InitDates

Spec == Init /\ [][Next]_vars

\* ------------------------------------------------------------------ claims
Loaded == pc \in {"loaded", "loop", "done"}

InLoop == pc \in {"loop", "done"}

Max0(n) == IF n > 0 THEN n ELSE 0

InputDates(frame) == {ParseDate(frame.rows[j].Date) : j \in 1..Len(frame.rows)}

NoRepeat(frame) ==
    \A a \in 1..Len(frame.rows), b \in 1..Len(frame.rows) :
        a # b => ParseDate(frame.rows[a].Date) # ParseDate(frame.rows[b].Date)

DistinctInputs == NoRepeat(gold_silver) /\ NoRepeat(macro)

RECURSIVE Ascending(_)
Ascending(S) ==
    IF S = {} THEN <<>> ELSE <<MinOf(S)>> \o Ascending(S \ {MinOf(S)})

\* The loop indices passed so far that left a point, in loop order.
EmittedIdx == Ascending((Window..(i - 1)) \ (failed \cup skippedNull))

PointDates == {rolling_results[k].Date : k \in 1..Len(rolling_results)}

\* C1: for inputs in which no date repeats, load_data returns exactly one
\* row per date present in both inputs and none for any other date, so the
\* output has as many rows as there are common dates, at most
\* min(len(priceRows), len(macroRows)).
C1_InnerJoin ==
    (Loaded /\ DistinctInputs) =>
        LET common == InputDates(gold_silver) \cap InputDates(macro)
        IN  /\ Len(df.rows) = Cardinality(common)
            /\ \A d \in common :
                    Cardinality({j \in 1..Len(df.rows) : df.rows[j].Date = d}) = 1
            /\ \A j \in 1..Len(df.rows) : df.rows[j].Date \in common
            /\ Len(df.rows) <= Len(gold_silver.rows)
            /\ Len(df.rows) <= Len(macro.rows)

C1_Witness ==
    /\ Loaded /\ DistinctInputs
    /\ Len(df.rows) >= 1
    /\ InputDates(gold_silver) \ InputDates(macro) # {}
    /\ InputDates(macro) \ InputDates(gold_silver) # {}

\* C2: for inputs in any row order in which no date repeats, the output of
\* load_data is sorted by date: date[a] < date[b] for positions a < b.
C2_SortedByDate ==
    (Loaded /\ DistinctInputs) =>
        \A a \in 1..Len(df.rows), b \in 1..Len(df.rows) :
            a < b => df.rows[a].Date < df.rows[b].Date

C2_Witness ==
    /\ Loaded /\ DistinctInputs
    /\ Len(df.rows) >= 2
    /\ ParseDate(gold_silver.rows[1].Date) > ParseDate(gold_silver.rows[2].Date)
    /\ ParseDate(macro.rows[1].Date) < ParseDate(macro.rows[2].Date)

\* C3 as stated: calculate_rolling_betas emits at most len(filteredRows) -
\* window points, the point of loop index j carries the date of
\* filteredRows[j], and the dates of the points strictly increase.
C3_Original ==
    InLoop =>
        /\ Len(rolling_results) <= Len(bdf.rows) - Window
        /\ \A k \in 1..Len(rolling_results) :
                rolling_results[k].Date = bdf.rows[EmittedIdx[k] + 1].Date
        /\ \A a \in 1..Len(rolling_results), b \in 1..Len(rolling_results) :
                a < b => rolling_results[a].Date < rolling_results[b].Date

\* C3 (amended): calculate_rolling_betas emits at most
\* max(len(filteredRows) - window, 0) points, the point of loop index j
\* carries the date of filteredRows[j], and the dates of the points never
\* decrease; they strictly increase when no date repeats in the inputs.
C3_AtMostAndDated ==
    InLoop =>
        /\ Len(rolling_results) <= Max0(Len(bdf.rows) - Window)
        /\ Len(rolling_results) = Len(EmittedIdx)
        /\ \A k \in 1..Len(rolling_results) :
                rolling_results[k].Date = bdf.rows[EmittedIdx[k] + 1].Date
        /\ \A a \in 1..Len(rolling_results), b \in 1..Len(rolling_results) :
                a < b =>
                    /\ rolling_results[a].Date <= rolling_results[b].Date
                    /\ DistinctInputs => rolling_results[a].Date < rolling_results[b].Date

C3_Witness ==
    /\ pc = "done"
    /\ Len(rolling_results) >= 2
    /\ rolling_results[1].Date = rolling_results[2].Date

Skipped == failed \cup skippedNull

NoNullRequired(rows) == \A j \in 1..Len(rows) : ~HasNull(rows[j], Required)

FourCoefficients(pt) ==
    /\ ~IsNull(pt.Inflation_Beta)
    /\ ~IsNull(pt.DXY_Beta)
    /\ ~IsNull(pt.US10Y_Yield_Beta)
    /\ ~IsNull(pt.Sentiment_Beta)

\* C4 as stated: the number of points is (len(filteredRows) - window) minus
\* the number of skipped indices; with no null required field and no failed
\* fit, N rows give max(N - window, 0) points of four non-null coefficients;
\* a skipped window makes the count smaller than len(filteredRows) - window.
C4_Original ==
    pc = "done" =>
        /\ Len(rolling_results) = (Len(bdf.rows) - Window) - Cardinality(Skipped)
        /\ (NoNullRequired(df.rows) /\ failed = {}) =>
                /\ Len(rolling_results) = Max0(Len(df.rows) - Window)
                /\ \A k \in 1..Len(rolling_results) : FourCoefficients(rolling_results[k])
        /\ Skipped # {} => Len(rolling_results) < Len(bdf.rows) - Window

\* C4 (amended): the number of points is max(len(filteredRows) - window, 0)
\* minus the number of skipped indices; with no null required field and no
\* failed fit, N rows give max(N - window, 0) points of four non-null
\* coefficients; a skipped window makes the count smaller than
\* len(filteredRows) - window.
C4_PointCount ==
    pc = "done" =>
        /\ Len(rolling_results) = Max0(Len(bdf.rows) - Window) - Cardinality(Skipped)
        /\ \A k \in 1..Len(rolling_results) : FourCoefficients(rolling_results[k])
        /\ (NoNullRequired(df.rows) /\ failed = {}) =>
                Len(rolling_results) = Max0(Len(df.rows) - Window)
        /\ Skipped # {} => Len(rolling_results) < Len(bdf.rows) - Window

C4_Witness ==
    /\ pc = "done"
    /\ NoNullRequired(df.rows)
    /\ failed # {}
    /\ Len(rolling_results) >= 2

\* The merged rows have a null DXY in the row at 0-based position p and no
\* other null in a required field.
SingleNullDXY(p) ==
    /\ p < Len(df.rows)
    /\ IsNull(df.rows[p + 1].DXY)
    /\ ~HasNull(df.rows[p + 1], Required \ {"DXY"})
    /\ \A j \in 1..Len(df.rows) : j # p + 1 => ~HasNull(df.rows[j], Required)

\* The range [j - window, j) holds position p.
Covers(j, p) == j - Window <= p /\ p < j

WindowFull(rows, j, w, cols) ==
    \A h \in (j - w + 1)..j : \A c \in cols : ~IsNull(rows[h][c])

\* Column c takes one value over the trailing window of w rows ending at j.
WindowFlat(rows, j, w, c) ==
    \A h \in (j - w + 1)..j : rows[h][c].v = rows[j][c].v

RollingNullAtStart ==
    \A j \in 1..Len(df.rows) :
        /\ j < VolWindow => IsNull(df.rows[j].Gold_Volatility)
        /\ j < VolWindow => IsNull(df.rows[j].Silver_Volatility)
        /\ j < CorrWindow => IsNull(df.rows[j].Gold_to_DXY_Corr)
        /\ j < CorrWindow => IsNull(df.rows[j].Gold_to_Yield_Corr)

\* C6 as stated: a rolling field of window w is null in its first w - 1
\* rows (all of them in a one-row table), and from row w on it is non-null
\* whenever its trailing window holds no null.
C6_Original ==
    Loaded =>
        /\ RollingNullAtStart
        /\ \A j \in 1..Len(df.rows) :
            /\ (j >= VolWindow /\ WindowFull(df.rows, j, VolWindow, {"Gold_Returns"}))
                    => ~IsNull(df.rows[j].Gold_Volatility)
            /\ (j >= CorrWindow /\ WindowFull(df.rows, j, CorrWindow, {"Gold_Returns", "DXY"}))
                    => ~IsNull(df.rows[j].Gold_to_DXY_Corr)

\* C6 (amended): a rolling field of window w is null in its first w - 1
\* rows (all of them in a one-row table); from row w on Gold_Volatility is
\* non-null whenever its trailing window holds no null, and Gold_to_DXY_Corr
\* is non-null whenever its trailing window holds no null and neither
\* Gold_Returns nor DXY is constant over it.
C6_RollingNulls ==
    Loaded =>
        /\ RollingNullAtStart
        /\ \A j \in 1..Len(df.rows) :
            /\ (j >= VolWindow /\ WindowFull(df.rows, j, VolWindow, {"Gold_Returns"}))
                    => ~IsNull(df.rows[j].Gold_Volatility)
            /\ ( /\ j >= CorrWindow
                 /\ WindowFull(df.rows, j, CorrWindow, {"Gold_Returns", "DXY"})
                 /\ ~WindowFlat(df.rows, j, CorrWindow, "Gold_Returns")
                 /\ ~WindowFlat(df.rows, j, CorrWindow, "DXY") )
                    => ~IsNull(df.rows[j].Gold_to_DXY_Corr)

C6_Witness ==
    /\ Loaded
    /\ \E j \in 1..Len(df.rows), h \in 1..Len(df.rows) :
        /\ j >= CorrWindow /\ h >= CorrWindow
        /\ WindowFull(df.rows, j, CorrWindow, {"Gold_Returns", "DXY"})
        /\ WindowFlat(df.rows, j, CorrWindow, "DXY")
        /\ IsNull(df.rows[j].Gold_to_DXY_Corr)
        /\ ~IsNull(df.rows[h].Gold_to_DXY_Corr)
        /\ ~IsNull(df.rows[h].Gold_Volatility)
        /\ IsNull(df.rows[1].Gold_Volatility)

\* The row of the price sheet dated d (one row when no date repeats).
PriceRowsOf(d) ==
    {gold_silver.rows[j] : j \in {h \in 1..Len(gold_silver.rows) :
                                    ParseDate(gold_silver.rows[h].Date) = d}}

\* C7: in every row of load_data's output Gold_Silver_Ratio is Gold_Close /
\* Silver_Close of that row, the prices being those of the price sheet's row
\* of that date, and it is null whenever Silver_Close is null.
C7_RatioOfTheRow ==
    Loaded =>
        \A j \in 1..Len(df.rows) :
            LET r == df.rows[j]
            IN  /\ \E q \in PriceRowsOf(r.Date) :
                        /\ r.Gold_Close = q.Gold_Price
                        /\ r.Silver_Close = q.Silver_Price
                /\ IsNull(r.Silver_Close) => IsNull(r.Gold_Silver_Ratio)
                /\ (~IsNull(r.Silver_Close) /\ ~IsNull(r.Gold_Close)
                        /\ r.Silver_Close.v # 0) =>
                        /\ r.Gold_Silver_Ratio.k = "num"
                        /\ r.Gold_Silver_Ratio.n = r.Gold_Close.v
                        /\ r.Gold_Silver_Ratio.d = r.Silver_Close.v

C7_Witness ==
    /\ Loaded
    /\ \E j \in 1..Len(df.rows), h \in 1..Len(df.rows) :
        /\ IsNull(df.rows[j].Silver_Close) /\ IsNull(df.rows[j].Gold_Silver_Ratio)
        /\ df.rows[h].Gold_Silver_Ratio.k = "num"
        /\ df.rows[h].Gold_Silver_Ratio.n # df.rows[h].Gold_Silver_Ratio.d

MacroRowsOf(d) ==
    {macro.rows[j] : j \in {h \in 1..Len(macro.rows) : ParseDate(macro.rows[h].Date) = d}}

C9_FitFailureSkipsOneIndex ==
    InLoop =>
        /\ err = "none"
        /\ i <= Max0(Len(bdf.rows) - Window) + Window
        /\ rolling_results =
               [k \in 1..Len(EmittedIdx) |-> Point(bdf, EmittedIdx[k], Window)]
        /\ \A k \in 1..Len(rolling_results) : FourCoefficients(rolling_results[k])
        /\ pc = "loop" => ENABLED (LoopStep \/ ReturnBetas)
        /\ pc = "done" =>
               /\ i = Max0(Len(bdf.rows) - Window) + Window
               /\ Len(rolling_results) + Cardinality(failed) = Max0(Len(bdf.rows) - Window)

C9_Witness ==
    /\ pc = "done"
    /\ bdf.obj \cap Required = {}
    /\ \E a \in failed : \E k \in 1..Len(EmittedIdx) : a < EmittedIdx[k]
    /\ \E a \in failed : \E k \in 1..Len(EmittedIdx) : a > EmittedIdx[k]

\* C10: every row left by the dropna of line 45 has its five required
\* fields, so no window holds a null, the null check of line 53 never skips
\* an index, and an index without a point is one whose fit raised.
C10_NullCheckNeverSkips ==
    InLoop =>
        /\ NoNullRequired(bdf.rows)
        /\ \A j \in Window..(Len(bdf.rows) - 1) :
               ~WindowHasNull(WindowRows(bdf.rows, j, Window))
        /\ skippedNull = {}
        /\ pc = "done" =>
               (Window..(Len(bdf.rows) - 1)) \ Range(EmittedIdx) = failed

C10_Witness ==
    /\ pc = "done"
    /\ Len(bdf.rows) < Len(df.rows)
    /\ Len(bdf.rows) >= Window + 2
    /\ failed # {}
    /\ rolling_results # <<>>

=============================================================================
